---- MODULE Spec2Model ----
(***************************************************************************)
(* AZLeads: the lead forwarding and callback reconciliation pipeline.      *)
(*                                                                         *)
(* One lead is followed from tracking intake through the forward job       *)
(* (BullMQ worker, processForwardLead), the forward-lead edge function,    *)
(* the operator retry (retryLead) and the advertiser callback handler.     *)
(* Every handler is cut at its awaits: one action per database, cache or   *)
(* HTTP round trip, so that handlers interleave as they do on the event    *)
(* loop and across processes.                                              *)
(***************************************************************************)
EXTENDS Integers, Sequences, FiniteSets, TLC

VARIABLES
    now,            \* Unix time in seconds (Date.now() / 1000)
    mappings,       \* the routing table (read-only to the pipeline)
    endpointMode,   \* how the advertiser endpoint behaves in this run
    lead,           \* the Lead row
    jobs,           \* the forward-lead queue: job id -> job
    edge,           \* the invocation of the forward-lead edge function
    retry,          \* the operator's retryLead call in progress
    forwardLogs,    \* the ForwardAttempt table, in insertion order
    httpPosts,      \* number of HTTP POSTs sent, per sender
    cbs,            \* the callback requests being handled
    replayCache,    \* the replay keys held by Redis, with their expiry
    callbackLogs,   \* the CallbackLog table, in insertion order
    commissions,    \* the Commission table, in insertion order
    fieldMappings,  \* the FieldMapping table (rules of the lead's advertiser)
    leadFields,     \* the lead's contact fields and its raw tracking payload
    requestPayload, \* the body built for the advertiser, and who built it
    hmacTrial       \* one signature on its way from signer to verifier

vars == <<now, mappings, endpointMode, lead, jobs, edge, retry, forwardLogs,
          httpPosts, cbs, replayCache, callbackLogs, commissions,
          fieldMappings, leadFields, requestPayload, hmacTrial>>

fwdVars == <<jobs, edge, retry, forwardLogs, httpPosts>>
cbVars == <<cbs, replayCache, callbackLogs, commissions>>
envVars == <<mappings, endpointMode, fieldMappings, leadFields,
            requestPayload, hmacTrial>>

(***************************************************************************)
(* Bounds of the model and constants of the program.                       *)
(***************************************************************************)
MaxJobs == 2
MaxCallbacks == 2
MaxTicks == 2
MaxPosts == 7
MaxStalled == 1

ATTEMPTS == 6
CONCURRENCY == 10
WINDOW == 300
REPLAY_TTL == 300

Null == 0 - 1                 \* null / undefined, where a number is expected
Tick == WINDOW \div 2         \* the clock advances in steps of 150 s

JobIds == 1..MaxJobs
EdgeId == 0                   \* the edge function, as a sender of POSTs
CbIds == 1..MaxCallbacks

LeadId == "lead1"
AzTxId == "AZ-1"
AffiliateId == "A"
OfferId == "O"

(***************************************************************************)
(* Advertisers: X signs with a secret, Y has none.                         *)
(***************************************************************************)
Advertisers == {"X", "Y"}

Advertiser(id) ==
    [id |-> id,
     endpointUrl |-> IF id = "X" THEN "https://x/in" ELSE "https://y/in",
     endpointSecret |-> IF id = "X" THEN "s1" ELSE ""]

NoMapping == [affiliateId |-> "", offerId |-> "", advertiserId |-> "none",
              enabled |-> FALSE, forwardUrl |-> ""]

Mapping(aff, adv, en, url) ==
    [affiliateId |-> aff, offerId |-> OfferId, advertiserId |-> adv,
     enabled |-> en, forwardUrl |-> url]

\* The routing tables a run may start with.
MappingTables ==
    { << >>,
      << Mapping("A", "X", TRUE, "") >>,
      << Mapping("A", "Y", TRUE, "https://y/override") >>,
      << Mapping("A", "X", FALSE, "") >>,
      << Mapping("B", "X", TRUE, "") >>,
      << Mapping("A", "X", TRUE, ""), Mapping("A", "Y", TRUE, "") >> }

\* As MatchingMappings, with the enabled flag not looked at.
MatchingMappingsAnyFlag(table) ==
    SelectSeq(table, LAMBDA m : m.affiliateId = AffiliateId
                                /\ m.offerId = OfferId)

\* The enabled mappings of the lead's (affiliate, offer), in table order.
MatchingMappings(table) ==
    SelectSeq(table, LAMBDA m : m.affiliateId = AffiliateId
                                /\ m.offerId = OfferId /\ m.enabled)

\* db.mapping.findFirst: the first matching row, or none.
findFirstMapping(table) ==
    IF MatchingMappings(table) = << >> THEN NoMapping
    ELSE Head(MatchingMappings(table))

\* supabase ... .maybeSingle(): the row when exactly one matches; no row, or
\* an error (more than one row), leaves the caller without a mapping.
maybeSingleMapping(table) ==
    IF Len(MatchingMappings(table)) = 1 THEN Head(MatchingMappings(table))
    ELSE NoMapping

\* mapping.forwardUrl || advertiser.endpointUrl
endpointUrl(m) ==
    IF m.forwardUrl # "" THEN m.forwardUrl
    ELSE Advertiser(m.advertiserId).endpointUrl

(***************************************************************************)
(* The advertiser endpoint.  Its answer to the n-th POST it receives       *)
(* (n counted from 0) is a status code, or Null when the request fails in  *)
(* transport (network error, timeout).                                     *)
(***************************************************************************)
EndpointModes == {"ok", "reject", "down", "timeout", "recover", "flap", "lateReject"}

EndpointResponse(mode, n) ==
    CASE mode = "ok" -> 201
      [] mode = "reject" -> 400
      [] mode = "down" -> 503
      [] mode = "timeout" -> Null
      [] mode = "recover" -> IF n < 2 THEN 503 ELSE 200
      [] mode = "flap" -> IF n % 2 = 0 THEN Null ELSE 500
      [] OTHER -> IF n = 0 THEN Null ELSE 404

RECURSIVE SumOver(_, _)
SumOver(f, S) ==
    IF S = {} THEN 0
    ELSE LET x == CHOOSE y \in S : TRUE IN f[x] + SumOver(f, S \ {x})

Senders == JobIds \cup {EdgeId}
TotalPosts == SumOver(httpPosts, Senders)

(***************************************************************************)
(* The Lead row.                                                           *)
(***************************************************************************)
NoLead ==
    [status |-> "none", advertiserId |-> "none", advertiserStatus |-> "none",
     payout |-> Null, ftdAt |-> Null, advertiserResponse |-> Null]

\* tx.lead.create / .from('leads').insert: status 'pending', nothing else set.
NewLead == [NoLead EXCEPT !.status = "pending"]

(***************************************************************************)
(* The forward-lead queue (BullMQ) and its jobs.                           *)
(***************************************************************************)
NoJob ==
    [state |-> "none", attemptsMade |-> 0, pc |-> "-", mapping |-> NoMapping,
     response |-> Null, errorStatus |-> Null, stalled |-> 0]

AddedJobs == {j \in JobIds : jobs[j].state # "none"}
ActiveJobs == {j \in JobIds : jobs[j].state = "active"}
NextJobId == Cardinality(AddedJobs) + 1

\* As addForwardLeadJob, the new job starting with one attempt counted.
addForwardLeadJobCounted(js) ==
    [js EXCEPT ![Cardinality({j \in JobIds : js[j].state # "none"}) + 1] =
        [NoJob EXCEPT !.state = "waiting", !.attemptsMade = 1]]

\* queue.add('forward', { leadId }, ...): a new job, waiting, no attempt made.
addForwardLeadJob(js) ==
    [js EXCEPT ![Cardinality({j \in JobIds : js[j].state # "none"}) + 1] =
        [NoJob EXCEPT !.state = "waiting"]]

\* What the job layer does with a job whose processor threw: the attempt is
\* counted, and the job is delayed for its backoff, or failed when the
\* attempts of the queue's defaultJobOptions are used up.
JobThrew(job) ==
    [job EXCEPT !.attemptsMade = job.attemptsMade + 1,
                !.state = IF job.attemptsMade + 1 < ATTEMPTS THEN "delayed"
                          ELSE "failed",
                !.pc = "-"]

\* As JobReturned, with the return counted as a failed attempt.
JobReturnedCounted(job) ==
    [job EXCEPT !.attemptsMade = job.attemptsMade + 1,
                !.state = "delayed", !.pc = "-"]

\* The processor returned: the job is completed.
JobReturned(job) == [job EXCEPT !.state = "completed", !.pc = "-"]

\* The worker process stopped while the job was active: the job layer finds
\* the job stalled and puts it back in the queue, to be run again.
JobStalled(job) ==
    [job EXCEPT !.state = "waiting", !.pc = "-", !.stalled = job.stalled + 1]

\* As ForwardLogRow, with the attempt number not recorded.
ForwardLogRowNoAttempt(by, attemptNo, statusCode, isError) ==
    [by |-> by, leadId |-> LeadId, attemptNo |-> 0,
     statusCode |-> statusCode, error |-> isError]

ForwardLogRow(by, attemptNo, statusCode, isError) ==
    [by |-> by, leadId |-> LeadId, attemptNo |-> attemptNo,
     statusCode |-> statusCode, error |-> isError]

\* As ForwardedUpdate, with the advertiser not assigned.
ForwardedUpdateNoAdvertiser(l, advId, data) ==
    [l EXCEPT !.status = "forwarded", !.advertiserResponse = data]

\* The lead.update of a forward attempt.
ForwardedUpdate(l, advId, data) ==
    [l EXCEPT !.status = "forwarded", !.advertiserId = advId,
              !.advertiserResponse = data]

ClientErrorUpdate(l, advId, data) ==
    [l EXCEPT !.status = "forward_failed", !.advertiserId = advId,
              !.advertiserResponse = data]

FailedUpdate(l, advId) ==
    [l EXCEPT !.status = "forward_failed", !.advertiserId = advId]

NoMappingUpdate(l) == [l EXCEPT !.status = "no_mapping"]

(***************************************************************************)
(* Tracking intake.                                                        *)
(***************************************************************************)
\* POST /track, queue variant: the lead is created and its forward job
\* enqueued in one transaction.
TrackQueue ==
    /\ lead.status = "none"
    /\ lead' = NewLead
    /\ jobs' = addForwardLeadJob(jobs)
    /\ UNCHANGED <<now, edge, retry, forwardLogs, httpPosts>>
    /\ UNCHANGED cbVars /\ UNCHANGED envVars

\* POST /track, edge variant: the lead is created and the edge function is
\* triggered by a fire-and-forget fetch, which may fail.
TrackEdge ==
    /\ lead.status = "none"
    /\ lead' = NewLead
    /\ \E delivered \in BOOLEAN :
         edge' = [edge EXCEPT !.pc = IF delivered THEN "load" ELSE "lost"]
    /\ UNCHANGED <<now, jobs, retry, forwardLogs, httpPosts>>
    /\ UNCHANGED cbVars /\ UNCHANGED envVars

(***************************************************************************)
(* processForwardLead(job), one action per await.                          *)
(***************************************************************************)
\* As pflLoad, with the lead marked as taken once the mapping is found.
pflLoadClaiming(j) ==
    /\ jobs[j].state \in {"waiting", "delayed"}
    /\ Cardinality(ActiveJobs) < CONCURRENCY
    /\ IF lead.status # "pending"
       THEN /\ jobs' = [jobs EXCEPT ![j] = JobReturned(jobs[j])]
            /\ lead' = lead
       ELSE LET m == findFirstMapping(mappings) IN
            /\ jobs' = [jobs EXCEPT ![j] =
                          [jobs[j] EXCEPT !.state = "active",
                                          !.mapping = m,
                                          !.response = Null,
                                          !.errorStatus = Null,
                                          !.pc = IF m = NoMapping
                                                 THEN "nomapping"
                                                 ELSE "post"]]
            /\ lead' = IF m = NoMapping THEN lead
                       ELSE [lead EXCEPT !.status = "forwarding"]
    /\ UNCHANGED <<now, edge, retry, forwardLogs, httpPosts>>
    /\ UNCHANGED cbVars /\ UNCHANGED envVars

\* The worker takes the job (at most CONCURRENCY jobs are active), the
\* processor loads the lead and, when it is pending, looks up the mapping.
pflLoad(j) ==
    /\ jobs[j].state \in {"waiting", "delayed"}
    /\ Cardinality(ActiveJobs) < CONCURRENCY
    /\ IF lead.status # "pending"
       THEN jobs' = [jobs EXCEPT ![j] = JobReturned(jobs[j])]
       ELSE LET m == findFirstMapping(mappings) IN
            jobs' = [jobs EXCEPT ![j] =
                       [jobs[j] EXCEPT !.state = "active",
                                       !.mapping = m,
                                       !.response = Null,
                                       !.errorStatus = Null,
                                       !.pc = IF m = NoMapping THEN "nomapping"
                                              ELSE "post"]]
    /\ UNCHANGED <<now, lead, edge, retry, forwardLogs, httpPosts>>
    /\ UNCHANGED cbVars /\ UNCHANGED envVars

\* No mapping: status no_mapping, and the processor returns.
pflNoMapping(j) ==
    /\ jobs[j].state = "active" /\ jobs[j].pc = "nomapping"
    /\ lead' = NoMappingUpdate(lead)
    /\ jobs' = [jobs EXCEPT ![j] = JobReturned(jobs[j])]
    /\ UNCHANGED <<now, edge, retry, forwardLogs, httpPosts>>
    /\ UNCHANGED cbVars /\ UNCHANGED envVars

\* axios.post with validateStatus: status < 500.  A response below 500
\* resolves; a 5xx response or a transport error rejects, the status of the
\* 5xx response being carried by the error.
pflPost(j) ==
    /\ jobs[j].state = "active" /\ jobs[j].pc = "post"
    /\ TotalPosts < MaxPosts
    /\ LET r == EndpointResponse(endpointMode, TotalPosts) IN
       jobs' = [jobs EXCEPT ![j] =
                  IF r # Null /\ r < 500
                  THEN [jobs[j] EXCEPT !.response = r, !.pc = "log"]
                  ELSE [jobs[j] EXCEPT !.errorStatus = r, !.pc = "catchLog"]]
    /\ httpPosts' = [httpPosts EXCEPT ![j] = @ + 1]
    /\ UNCHANGED <<now, lead, edge, retry, forwardLogs>>
    /\ UNCHANGED cbVars /\ UNCHANGED envVars

\* forwardLog.create in the try block.
pflLog(j) ==
    /\ jobs[j].state = "active" /\ jobs[j].pc = "log"
    /\ forwardLogs' = Append(forwardLogs,
          ForwardLogRow(j, jobs[j].attemptsMade + 1, jobs[j].response, FALSE))
    /\ jobs' = [jobs EXCEPT ![j].pc = "update"]
    /\ UNCHANGED <<now, lead, edge, retry, httpPosts>>
    /\ UNCHANGED cbVars /\ UNCHANGED envVars

\* lead.update in the try block: forwarded on 2xx and the processor returns;
\* otherwise forward_failed, and the Error thrown there is caught by the
\* catch block of the same try (it has no response attached).
pflUpdate(j) ==
    /\ jobs[j].state = "active" /\ jobs[j].pc = "update"
    /\ LET r == jobs[j].response
           adv == jobs[j].mapping.advertiserId IN
       IF r >= 200 /\ r < 300
       THEN /\ lead' = ForwardedUpdate(lead, adv, r)
            /\ jobs' = [jobs EXCEPT ![j] = JobReturned(jobs[j])]
       ELSE /\ lead' = ClientErrorUpdate(lead, adv, r)
            /\ jobs' = [jobs EXCEPT ![j].errorStatus = Null,
                                    ![j].pc = "catchLog"]
    /\ UNCHANGED <<now, edge, retry, forwardLogs, httpPosts>>
    /\ UNCHANGED cbVars /\ UNCHANGED envVars

\* forwardLog.create in the catch block.
pflCatchLog(j) ==
    /\ jobs[j].state = "active" /\ jobs[j].pc = "catchLog"
    /\ forwardLogs' = Append(forwardLogs,
          ForwardLogRow(j, jobs[j].attemptsMade + 1, jobs[j].errorStatus, TRUE))
    /\ jobs' = [jobs EXCEPT ![j].pc = "catchUpdate"]
    /\ UNCHANGED <<now, lead, edge, retry, httpPosts>>
    /\ UNCHANGED cbVars /\ UNCHANGED envVars

\* The rest of the catch block: forward_failed for an error that carries a
\* status below 500, or on the final attempt; then the error is thrown
\* again, to the job layer.
pflCatchUpdate(j) ==
    /\ jobs[j].state = "active" /\ jobs[j].pc = "catchUpdate"
    /\ LET s == jobs[j].errorStatus
           adv == jobs[j].mapping.advertiserId IN
       lead' = IF s # Null /\ s < 500 THEN FailedUpdate(lead, adv)
               ELSE IF jobs[j].attemptsMade >= ATTEMPTS - 1
                    THEN FailedUpdate(lead, adv)
                    ELSE lead
    /\ jobs' = [jobs EXCEPT ![j] = JobThrew(jobs[j])]
    /\ UNCHANGED <<now, edge, retry, forwardLogs, httpPosts>>
    /\ UNCHANGED cbVars /\ UNCHANGED envVars

\* An await before the HTTP call rejects (the lead or mapping lookup, the
\* payload build): the outer catch logs and throws again, nothing is written
\* to the lead, and the job layer counts the attempt.
pflThrowsBeforePost(j) ==
    /\ jobs[j].state \in {"waiting", "delayed"}
    /\ Cardinality(ActiveJobs) < CONCURRENCY
    /\ jobs' = [jobs EXCEPT ![j] = JobThrew(jobs[j])]
    /\ UNCHANGED <<now, lead, edge, retry, forwardLogs, httpPosts>>
    /\ UNCHANGED cbVars /\ UNCHANGED envVars

\* The worker process stops while the job is active, at any await of the
\* processor; the job is redelivered.
workerStop(j) ==
    /\ jobs[j].state = "active"
    /\ jobs[j].stalled < MaxStalled
    /\ jobs' = [jobs EXCEPT ![j] = JobStalled(jobs[j])]
    /\ UNCHANGED <<now, lead, edge, retry, forwardLogs, httpPosts>>
    /\ UNCHANGED cbVars /\ UNCHANGED envVars

(***************************************************************************)
(* The forward-lead edge function, one action per await.                   *)
(***************************************************************************)
NoEdge == [pc |-> "idle", mapping |-> NoMapping, response |-> Null]

edgeLoad ==
    /\ edge.pc = "load"
    /\ IF lead.status # "pending"
       THEN edge' = [edge EXCEPT !.pc = "done"]
       ELSE LET m == maybeSingleMapping(mappings) IN
            edge' = [edge EXCEPT !.mapping = m,
                                 !.pc = IF m = NoMapping THEN "nomapping"
                                        ELSE "post"]
    /\ UNCHANGED <<now, lead, jobs, retry, forwardLogs, httpPosts>>
    /\ UNCHANGED cbVars /\ UNCHANGED envVars

edgeNoMapping ==
    /\ edge.pc = "nomapping"
    /\ lead' = NoMappingUpdate(lead)
    /\ edge' = [edge EXCEPT !.pc = "done"]
    /\ UNCHANGED <<now, jobs, retry, forwardLogs, httpPosts>>
    /\ UNCHANGED cbVars /\ UNCHANGED envVars

\* fetch: any response resolves, a transport error rejects.
edgePost ==
    /\ edge.pc = "post"
    /\ TotalPosts < MaxPosts
    /\ LET r == EndpointResponse(endpointMode, TotalPosts) IN
       edge' = [edge EXCEPT !.response = r,
                            !.pc = IF r # Null THEN "log" ELSE "catchLog"]
    /\ httpPosts' = [httpPosts EXCEPT ![EdgeId] = @ + 1]
    /\ UNCHANGED <<now, lead, jobs, retry, forwardLogs>>
    /\ UNCHANGED cbVars /\ UNCHANGED envVars

\* attemptNo is the constant 1.
edgeLog ==
    /\ edge.pc = "log"
    /\ forwardLogs' = Append(forwardLogs,
                             ForwardLogRow(EdgeId, 1, edge.response, FALSE))
    /\ edge' = [edge EXCEPT !.pc = "update"]
    /\ UNCHANGED <<now, lead, jobs, retry, httpPosts>>
    /\ UNCHANGED cbVars /\ UNCHANGED envVars

edgeUpdate ==
    /\ edge.pc = "update"
    /\ LET r == edge.response
           adv == edge.mapping.advertiserId IN
       lead' = IF r >= 200 /\ r < 300 THEN ForwardedUpdate(lead, adv, r)
               ELSE ClientErrorUpdate(lead, adv, r)
    /\ edge' = [edge EXCEPT !.pc = "done"]
    /\ UNCHANGED <<now, jobs, retry, forwardLogs, httpPosts>>
    /\ UNCHANGED cbVars /\ UNCHANGED envVars

edgeCatchLog ==
    /\ edge.pc = "catchLog"
    /\ forwardLogs' = Append(forwardLogs,
                             ForwardLogRow(EdgeId, 1, Null, TRUE))
    /\ edge' = [edge EXCEPT !.pc = "catchUpdate"]
    /\ UNCHANGED <<now, lead, jobs, retry, httpPosts>>
    /\ UNCHANGED cbVars /\ UNCHANGED envVars

edgeCatchUpdate ==
    /\ edge.pc = "catchUpdate"
    /\ lead' = FailedUpdate(lead, edge.mapping.advertiserId)
    /\ edge' = [edge EXCEPT !.pc = "done"]
    /\ UNCHANGED <<now, jobs, retry, forwardLogs, httpPosts>>
    /\ UNCHANGED cbVars /\ UNCHANGED envVars

(***************************************************************************)
(* retryLead(leadId), called by POST /leads/:id/retry once the lead is     *)
(* found: the status is reset, then a new job is added.                    *)
(***************************************************************************)
retryLeadUpdate ==
    /\ retry = "idle"
    /\ lead.status # "none"
    /\ NextJobId <= MaxJobs
    /\ lead' = [lead EXCEPT !.status = "pending"]
    /\ retry' = "enqueue"
    /\ UNCHANGED <<now, jobs, edge, forwardLogs, httpPosts>>
    /\ UNCHANGED cbVars /\ UNCHANGED envVars

retryLeadEnqueue ==
    /\ retry = "enqueue"
    /\ jobs' = addForwardLeadJob(jobs)
    /\ retry' = "idle"
    /\ UNCHANGED <<now, lead, edge, forwardLogs, httpPosts>>
    /\ UNCHANGED cbVars /\ UNCHANGED envVars

(***************************************************************************)
(* Signing.  The keyed hash is a one-to-one function of the secret and of  *)
(* the signed text "timestamp:body": the digest is the triple itself.      *)
(***************************************************************************)
hmacAlgo == "sha256"

NoPayload == [az_tx_id |-> "", status |-> "", payout |-> Null]
NoDigest == [secret |-> "", timestamp |-> Null, body |-> NoPayload]

\* A signature header reads "<algorithm>=<hex digits>", possibly followed by
\* "=<tail>".  hash is the digest its hex digits spell, upper tells whether
\* the letters among them are capitals, tail is what follows a second "=".
NoSignature ==
    [algorithm |-> "", hash |-> NoDigest, upper |-> FALSE, tail |-> ""]

createHmacSignature(secret, timestamp, body) ==
    [secret |-> secret, timestamp |-> timestamp, body |-> body]

\* The X-Signature header: "<algorithm>=<hex digest>".
SignatureHeader(algorithm, digest) ==
    [algorithm |-> algorithm, hash |-> digest, upper |-> FALSE, tail |-> ""]

\* const [algorithm, hash] = signature.split('='): the first two parts; any
\* further part is dropped.
SplitSignature(signature) ==
    [algorithm |-> signature.algorithm,
     hash |-> [digits |-> signature.hash, upper |-> signature.upper]]

\* digest('hex'): the hex text of a digest, in lower-case digits.
HexDigest(digest) == [digits |-> digest, upper |-> FALSE]

\* Buffer.from(text, 'hex'): the bytes spelled, whatever the case of the
\* digits.
BufferFromHex(hex) == hex.digits

Abs(x) == IF x < 0 THEN 0 - x ELSE x

\* verifyHmacSignature at time t.
verifyHmacSignature(secret, timestamp, body, signature, t) ==
    IF Abs(t - timestamp) > WINDOW THEN FALSE
    ELSE LET parts == SplitSignature(signature) IN
         IF parts.algorithm # hmacAlgo THEN FALSE
         ELSE BufferFromHex(parts.hash)
                = BufferFromHex(HexDigest(
                      createHmacSignature(secret, timestamp, body)))

(***************************************************************************)
(* The body sent to the advertiser.  An object is a function from the      *)
(* field names in use to values, Undefined where the object has no such    *)
(* key (or holds null).                                                    *)
(***************************************************************************)
Undefined == "undefined"

StandardFields == {"email", "phone", "first_name", "last_name", "country"}
Fields == StandardFields \cup {"az_tx_id", "email_addr", "click_id"}

EmptyObject == [k \in Fields |-> Undefined]

Keys(obj) == {k \in Fields : obj[k] # Undefined}

\* a || b
OrElse(a, b) == IF a = Undefined \/ a = "" THEN b ELSE a

\* { ...base, ...over }
Spread(base, over) ==
    [k \in Fields |-> IF over[k] # Undefined THEN over[k] ELSE base[k]]

FieldMapping(adv, source, target, allow, transform) ==
    [advertiserId |-> adv, sourceField |-> source, targetField |-> target,
     allowlist |-> allow, transform |-> transform]

\* The FieldMapping tables a run may start with.
FieldMappingTables ==
    { << >>,
      << FieldMapping("X", "email", "email_addr", TRUE, "none") >>,
      << FieldMapping("X", "email", "email_addr", FALSE, "none") >>,
      << FieldMapping("Y", "email", "email_addr", TRUE, "none") >>,
      << FieldMapping("X", "email", "email_addr", TRUE, "none"),
         FieldMapping("X", "phone", "phone", FALSE, "none") >>,
      << FieldMapping("X", "email", "az_tx_id", TRUE, "none") >>,
      << FieldMapping("X", "click_id", "click_id", TRUE, "none"),
         FieldMapping("X", "country", "country", TRUE, "uppercase") >>,
      << FieldMapping("X", "email", "email", TRUE, "lowercase"),
         FieldMapping("X", "phone", "email", TRUE, "none") >>,
      << FieldMapping("X", "first_name", "first_name", TRUE, "trim") >>,
      << FieldMapping("X", "country", "az_tx_id", FALSE, "none"),
         FieldMapping("X", "country", "country", TRUE, "none") >> }

\* The contact fields of the lead and its raw tracking payload.
LeadFieldSets ==
    { [standard |-> [EmptyObject EXCEPT !["email"] = "A@x.io",
                                        !["phone"] = "555",
                                        !["country"] = "us"],
       rawPayload |-> raw] :
        raw \in { EmptyObject,
                  [EmptyObject EXCEPT !["email"] = "raw@x.io",
                                      !["click_id"] = "c1"],
                  [EmptyObject EXCEPT !["email"] = "",
                                      !["country"] = "bd"] } }
    \cup
    { [standard |-> [EmptyObject EXCEPT !["email"] = "A@x.io"],
       rawPayload |-> EmptyObject],
      [standard |-> EmptyObject,
       rawPayload |-> [EmptyObject EXCEPT !["click_id"] = "c1"]] }

toUpperCase(v) ==
    CASE v = "A@x.io" -> "A@X.IO"
      [] v = "raw@x.io" -> "RAW@X.IO"
      [] v = "us" -> "US"
      [] v = "bd" -> "BD"
      [] v = "c1" -> "C1"
      [] OTHER -> v

toLowerCase(v) ==
    CASE v = "A@x.io" -> "a@x.io"
      [] OTHER -> v

\* applyTransform(value, transform): trim and concat leave the values of
\* the model as they are (no blanks around them, no template).
applyTransform(value, transform) ==
    CASE transform = "uppercase" -> toUpperCase(value)
      [] transform = "lowercase" -> toLowerCase(value)
      [] OTHER -> value

\* fieldMapping.findMany({ where: { advertiserId, allowlist: true } })
findManyFieldMappings(table, advId) ==
    SelectSeq(table, LAMBDA r : r.advertiserId = advId /\ r.allowlist)

\* The loop over the rules found, in order: a later rule overwrites the key
\* an earlier one has set.
RECURSIVE applyFieldMappings(_, _, _, _)
applyFieldMappings(rules, lf, payload, transforms) ==
    IF rules = << >> THEN payload
    ELSE LET r == Head(rules)
             value == OrElse(lf.rawPayload[r.sourceField],
                             lf.standard[r.sourceField])
             out == IF transforms THEN applyTransform(value, r.transform)
                    ELSE value
         IN applyFieldMappings(Tail(rules), lf,
                IF value # Undefined
                THEN [payload EXCEPT ![r.targetField] = out]
                ELSE payload,
                transforms)

\* The default mapping: the standard fields that are set.
standardFields(lf) ==
    [k \in Fields |-> IF k \in StandardFields THEN lf.standard[k]
                      ELSE Undefined]

\* buildAnonymizedPayload(lead, advertiser) of the forward job; the edge
\* function builds the same without transforms.
buildAnonymizedPayload(lf, advId, table, transforms) ==
    LET rules == findManyFieldMappings(table, advId) IN
    IF Len(rules) > 0
    THEN applyFieldMappings(rules, lf, EmptyObject, transforms)
    ELSE standardFields(lf)

\* const requestPayload = { az_tx_id: lead.azTxId, ...anonymizedPayload }
buildRequestPayload(azTxId, payload) ==
    Spread([EmptyObject EXCEPT !["az_tx_id"] = azTxId], payload)

NoRequestPayload == [by |-> "none", body |-> EmptyObject]

\* processForwardLead, from the mapping found to the request body, for a
\* lead mapped to advertiser X.
pflBuildPayload ==
    /\ requestPayload.by = "none"
    /\ requestPayload' =
          [by |-> "job",
           body |-> buildRequestPayload(AzTxId,
                       buildAnonymizedPayload(leadFields, "X",
                                              fieldMappings, TRUE))]
    /\ UNCHANGED <<now, mappings, endpointMode, lead, fieldMappings,
                   leadFields, hmacTrial>>
    /\ UNCHANGED fwdVars /\ UNCHANGED cbVars

\* The same stretch of the edge function.
edgeBuildPayload ==
    /\ requestPayload.by = "none"
    /\ requestPayload' =
          [by |-> "edge",
           body |-> buildRequestPayload(AzTxId,
                       buildAnonymizedPayload(leadFields, "X",
                                              fieldMappings, FALSE))]
    /\ UNCHANGED <<now, mappings, endpointMode, lead, fieldMappings,
                   leadFields, hmacTrial>>
    /\ UNCHANGED fwdVars /\ UNCHANGED cbVars

(***************************************************************************)
(* A signature from signer to verifier: signed as the forward job signs    *)
(* its request, carried by a request in which one of body, timestamp and   *)
(* signature header may have been replaced, verified as the callback       *)
(* handler verifies.                                                       *)
(***************************************************************************)
Secrets == {"s1", "s2"}

TrialBodies ==
    { [az_tx_id |-> AzTxId, status |-> "approved", payout |-> 25],
      [az_tx_id |-> AzTxId, status |-> "rejected", payout |-> Null] }

\* Timestamps, relative to the verifier's clock: at the edges of the window
\* and one tick outside of it.
TrialOffsets == {0 - WINDOW - Tick, 0 - WINDOW, 0, WINDOW, WINDOW + Tick}

NoTrial ==
    [pc |-> "idle", secret |-> "", timestamp |-> Null, body |-> NoPayload,
     signature |-> NoSignature, changed |-> "none", result |-> FALSE]

\* The signature headers other than sig that a request may carry instead.
OtherSignatures(sig) ==
    ( { [sig EXCEPT !.algorithm = "md5"],
        [sig EXCEPT !.upper = TRUE],
        [sig EXCEPT !.tail = "x"] }
      \cup { [sig EXCEPT !.hash = createHmacSignature(k, sig.hash.timestamp,
                                                      sig.hash.body)] :
               k \in Secrets } ) \ {sig}

\* headers['X-Signature'], headers['X-Signature-Timestamp'] of the sender.
hmacSign ==
    /\ hmacTrial.pc = "idle"
    /\ \E secret \in Secrets, body \in TrialBodies, d \in TrialOffsets :
         hmacTrial' =
            [NoTrial EXCEPT
               !.pc = "signed", !.secret = secret,
               !.timestamp = now + d, !.body = body,
               !.signature = SignatureHeader(hmacAlgo,
                                createHmacSignature(secret, now + d, body))]
    /\ UNCHANGED <<now, mappings, endpointMode, lead, fieldMappings,
                   leadFields, requestPayload>>
    /\ UNCHANGED fwdVars /\ UNCHANGED cbVars

\* The request as it reaches the verifier: as sent, or with its body, its
\* timestamp or its signature header replaced by a different value.
hmacTransit ==
    /\ hmacTrial.pc = "signed"
    /\ \/ hmacTrial' = [hmacTrial EXCEPT !.pc = "sent"]
       \/ \E b \in TrialBodies \ {hmacTrial.body} :
            hmacTrial' = [hmacTrial EXCEPT !.pc = "sent", !.changed = "body",
                                           !.body = b]
       \/ \E d \in TrialOffsets :
            /\ now + d # hmacTrial.timestamp
            /\ hmacTrial' = [hmacTrial EXCEPT !.pc = "sent",
                                              !.changed = "timestamp",
                                              !.timestamp = now + d]
       \/ \E sig \in OtherSignatures(hmacTrial.signature) :
            hmacTrial' = [hmacTrial EXCEPT !.pc = "sent",
                                           !.changed = "signature",
                                           !.signature = sig]
    /\ UNCHANGED <<now, mappings, endpointMode, lead, fieldMappings,
                   leadFields, requestPayload>>
    /\ UNCHANGED fwdVars /\ UNCHANGED cbVars

\* The verifier, holding the signer's secret.
hmacVerify ==
    /\ hmacTrial.pc = "sent"
    /\ hmacTrial' =
          [hmacTrial EXCEPT
             !.pc = "verified",
             !.result = verifyHmacSignature(hmacTrial.secret,
                            hmacTrial.timestamp, hmacTrial.body,
                            hmacTrial.signature, now)]
    /\ UNCHANGED <<now, mappings, endpointMode, lead, fieldMappings,
                   leadFields, requestPayload>>
    /\ UNCHANGED fwdVars /\ UNCHANGED cbVars

(***************************************************************************)
(* The replay cache (Redis keys with an expiry).                           *)
(***************************************************************************)
ReplayKey(timestamp, signature) == <<timestamp, signature>>

\* redis.exists(key) at time t.
RedisExists(cache, key, t) ==
    \E e \in cache : e.key = key /\ e.expiresAt > t

\* As RedisSetEx, with the key written already expired.
RedisSetExNoTtl(cache, key, ttl, t) ==
    {e \in cache : e.key # key} \cup {[key |-> key, expiresAt |-> t]}

\* redis.setEx(key, ttl, '1') at time t.
RedisSetEx(cache, key, ttl, t) ==
    {e \in cache : e.key # key} \cup {[key |-> key, expiresAt |-> t + ttl]}

\* What is left of the cache at time t.
RedisExpire(cache, t) == {e \in cache : e.expiresAt > t}

(***************************************************************************)
(* The callback requests an advertiser (or anyone else) may send.          *)
(***************************************************************************)
Payloads ==
    { [az_tx_id |-> AzTxId, status |-> "approved", payout |-> 25],
      [az_tx_id |-> AzTxId, status |-> "approved", payout |-> 0],
      [az_tx_id |-> AzTxId, status |-> "approved", payout |-> Null],
      [az_tx_id |-> AzTxId, status |-> "rejected", payout |-> Null],
      [az_tx_id |-> AzTxId, status |-> "pending", payout |-> 25],
      [az_tx_id |-> AzTxId, status |-> "pending", payout |-> Null] }

SignedPayloads ==
    { [az_tx_id |-> AzTxId, status |-> "approved", payout |-> 25],
      [az_tx_id |-> AzTxId, status |-> "rejected", payout |-> Null] }

ForgedPayloads ==
    { [az_tx_id |-> AzTxId, status |-> "approved", payout |-> 25] }

BadPayloads ==
    { [az_tx_id |-> "AZ-unknown", status |-> "approved", payout |-> 25],
      [az_tx_id |-> "", status |-> "approved", payout |-> Null],
      [az_tx_id |-> AzTxId, status |-> "", payout |-> Null] }

\* The X-Signature-Timestamp values offered, relative to the time of sending.
TimestampOffsets == {0 - WINDOW, 0, WINDOW}

Unsigned(p) == [payload |-> p, signature |-> NoSignature, timestamp |-> Null]

Signed(p, secret, ts) ==
    [payload |-> p,
     signature |-> SignatureHeader(hmacAlgo, createHmacSignature(secret, ts, p)),
     timestamp |-> ts]

\* The requests that may arrive at time t: unsigned ones, ones signed by the
\* advertiser with its secret, and ones signed with another secret.
Requests(t) ==
    {Unsigned(p) : p \in Payloads \cup BadPayloads}
    \cup {Signed(p, "s1", t + d) : p \in SignedPayloads, d \in TimestampOffsets}
    \cup {Signed(p, "zz", t) : p \in ForgedPayloads}

NoCallback ==
    [pc |-> "find", payload |-> NoPayload, signature |-> NoSignature,
     timestamp |-> Null, status |-> "none", advertiserId |-> "none",
     ftdAt |-> Null, replayAt |-> Null, response |-> ""]

CommissionRow(advId, amount) ==
    [leadId |-> LeadId, advertiserId |-> advId, affiliateId |-> AffiliateId,
     amount |-> amount]

\* As existingCommission, looking for the rows of no advertiser.
existingCommissionNoAdvertiser(table, advId) ==
    \E i \in 1..Len(table) :
        table[i].leadId = LeadId /\ table[i].advertiserId = "none"

\* db.commission.findFirst({ where: { leadId, advertiserId } }) finds a row.
existingCommission(table, advId) ==
    \E i \in 1..Len(table) :
        table[i].leadId = LeadId /\ table[i].advertiserId = advId

\* As CallbackUpdate, with the conversion timestamp not written.
CallbackUpdateNoFtd(l, payload, ftdAt, t) ==
    LET l1 == [l EXCEPT !.advertiserStatus = payload.status]
        l2 == IF payload.payout # Null THEN [l1 EXCEPT !.payout = payload.payout]
              ELSE l1
    IN IF payload.status = "approved" /\ ftdAt = Null
       THEN [l2 EXCEPT !.status = "approved"]
       ELSE IF payload.status = "rejected"
            THEN [l2 EXCEPT !.status = "rejected"]
            ELSE l2

\* The data of the handler's lead.update, applied to the row l at time t;
\* ftdAt is the conversion timestamp the handler saw when it loaded the lead.
CallbackUpdate(l, payload, ftdAt, t) ==
    LET l1 == [l EXCEPT !.advertiserStatus = payload.status]
        l2 == IF payload.payout # Null THEN [l1 EXCEPT !.payout = payload.payout]
              ELSE l1
    IN IF payload.status = "approved" /\ ftdAt = Null
       THEN [l2 EXCEPT !.ftdAt = t, !.status = "approved"]
       ELSE IF payload.status = "rejected"
            THEN [l2 EXCEPT !.status = "rejected"]
            ELSE l2

\* As CommissionDue, with the status not looked at.
CommissionDueAnyStatus(payload) ==
    payload.payout # Null /\ payload.payout > 0

\* payload.status === 'approved' && payload.payout && payload.payout > 0
CommissionDue(payload) ==
    payload.status = "approved" /\ payload.payout # Null /\ payload.payout > 0

(***************************************************************************)
(* POST /advertiser_callback, one action per await.                        *)
(***************************************************************************)
\* A request arrives; the two checks of the body are made before any await.
cbReceive ==
    /\ Len(cbs) < MaxCallbacks
    /\ \E r \in Requests(now) :
         cbs' = Append(cbs,
            [NoCallback EXCEPT
               !.payload = r.payload,
               !.signature = r.signature,
               !.timestamp = r.timestamp,
               !.pc = IF r.payload.az_tx_id = "" \/ r.payload.status = ""
                      THEN "done" ELSE "find",
               !.response = IF r.payload.az_tx_id = "" THEN "MISSING_AZ_TX_ID"
                            ELSE IF r.payload.status = "" THEN "MISSING_STATUS"
                            ELSE ""])
    /\ UNCHANGED <<now, lead, replayCache, callbackLogs, commissions>>
    /\ UNCHANGED fwdVars /\ UNCHANGED envVars

\* The lead as the handler holds it after findUnique.
Loaded(c, pc) ==
    [cbs EXCEPT ![c].status = lead.status,
                ![c].advertiserId = lead.advertiserId,
                ![c].ftdAt = lead.ftdAt,
                ![c].pc = pc]

\* As Reject, with the success answer sent.
RejectAnsweredOk(c, code) == [cbs EXCEPT ![c].pc = "done", ![c].response = "ok"]

\* throw new ApiError(statusCode, code, ...): the handler's catch hands the
\* error to errorHandler.
Reject(c, code) == [cbs EXCEPT ![c].pc = "done", ![c].response = code]
Accept(c) == [cbs EXCEPT ![c].pc = "done", ![c].response = "ok"]

\* db.lead.findUnique by az_tx_id, then the signature gate up to its first
\* round trip to Redis.
cbFindLead(c) ==
    /\ cbs[c].pc = "find"
    /\ LET cb == cbs[c]
           secret == Advertiser(lead.advertiserId).endpointSecret IN
       cbs' =
         IF cb.payload.az_tx_id # AzTxId \/ lead.status = "none"
         THEN Reject(c, "LEAD_NOT_FOUND")
         ELSE IF lead.advertiserId = "none"
         THEN Reject(c, "NO_ADVERTISER")
         ELSE IF secret # "" /\ cb.signature # NoSignature /\ cb.timestamp # Null
         THEN IF verifyHmacSignature(secret, cb.timestamp, cb.payload,
                                     cb.signature, now)
              THEN Loaded(c, "replayExists")
              ELSE Reject(c, "INVALID_SIGNATURE")
         ELSE Loaded(c, "log")
    /\ UNCHANGED <<now, lead, replayCache, callbackLogs, commissions>>
    /\ UNCHANGED fwdVars /\ UNCHANGED envVars

\* RedisHelper.checkReplayAttack, first await: this.exists(key).  replayAt
\* keeps the time of the check (history, read by no action).
checkReplayAttackExists(c) ==
    /\ cbs[c].pc = "replayExists"
    /\ cbs' = IF RedisExists(replayCache,
                             ReplayKey(cbs[c].timestamp, cbs[c].signature), now)
              THEN [Reject(c, "REPLAY_ATTACK") EXCEPT ![c].replayAt = now]
              ELSE [cbs EXCEPT ![c].pc = "replaySet", ![c].replayAt = now]
    /\ UNCHANGED <<now, lead, replayCache, callbackLogs, commissions>>
    /\ UNCHANGED fwdVars /\ UNCHANGED envVars

\* RedisHelper.checkReplayAttack, second await: this.set(key, '1', 300).
checkReplayAttackSet(c) ==
    /\ cbs[c].pc = "replaySet"
    /\ replayCache' = RedisSetEx(replayCache,
                                 ReplayKey(cbs[c].timestamp, cbs[c].signature),
                                 REPLAY_TTL, now)
    /\ cbs' = [cbs EXCEPT ![c].pc = "log"]
    /\ UNCHANGED <<now, lead, callbackLogs, commissions>>
    /\ UNCHANGED fwdVars /\ UNCHANGED envVars

\* db.callbackLog.create
cbLog(c) ==
    /\ cbs[c].pc = "log"
    /\ callbackLogs' = Append(callbackLogs,
          [by |-> c, advertiserId |-> cbs[c].advertiserId,
           azTxId |-> cbs[c].payload.az_tx_id, statusCode |-> 200])
    /\ cbs' = [cbs EXCEPT ![c].pc = "update"]
    /\ UNCHANGED <<now, lead, replayCache, commissions>>
    /\ UNCHANGED fwdVars /\ UNCHANGED envVars

\* db.lead.update
cbUpdate(c) ==
    /\ cbs[c].pc = "update"
    /\ lead' = CallbackUpdate(lead, cbs[c].payload, cbs[c].ftdAt, now)
    /\ cbs' = IF CommissionDue(cbs[c].payload)
              THEN [cbs EXCEPT ![c].pc = "findCommission"]
              ELSE Accept(c)
    /\ UNCHANGED <<now, replayCache, callbackLogs, commissions>>
    /\ UNCHANGED fwdVars /\ UNCHANGED envVars

\* db.commission.findFirst
cbFindCommission(c) ==
    /\ cbs[c].pc = "findCommission"
    /\ cbs' = IF existingCommission(commissions, cbs[c].advertiserId)
              THEN Accept(c)
              ELSE [cbs EXCEPT ![c].pc = "createCommission"]
    /\ UNCHANGED <<now, lead, replayCache, callbackLogs, commissions>>
    /\ UNCHANGED fwdVars /\ UNCHANGED envVars

\* db.commission.create
cbCreateCommission(c) ==
    /\ cbs[c].pc = "createCommission"
    /\ commissions' = Append(commissions,
          CommissionRow(cbs[c].advertiserId, cbs[c].payload.payout))
    /\ cbs' = Accept(c)
    /\ UNCHANGED <<now, lead, replayCache, callbackLogs>>
    /\ UNCHANGED fwdVars /\ UNCHANGED envVars

\* The status code of the ApiError thrown with a code.
ApiErrorStatus(code) ==
    CASE code = "LEAD_NOT_FOUND" -> 404
      [] code = "INVALID_SIGNATURE" -> 401
      [] OTHER -> 400

\* errorHandler: res.status(error.statusCode).json({ error: { code, ... } })
errorHandler(code) ==
    [status |-> ApiErrorStatus(code), envelope |-> "error", code |-> code]

\* What the client of callback c is answered: res.json({ ok: true }), or
\* the envelope of errorHandler.
HttpResponse(cb) ==
    IF cb.response = "ok" THEN [status |-> 200, envelope |-> "ok", code |-> ""]
    ELSE errorHandler(cb.response)

(***************************************************************************)
(* Time passes; expired replay keys are gone.  Time is counted from the    *)
(* arrival of the first callback: nothing before it reads the clock.       *)
(***************************************************************************)
ClockTick ==
    /\ cbs # << >>
    /\ now < MaxTicks * Tick
    /\ now' = now + Tick
    /\ replayCache' = RedisExpire(replayCache, now')
    /\ UNCHANGED <<lead, cbs, callbackLogs, commissions>>
    /\ UNCHANGED fwdVars /\ UNCHANGED envVars

(***************************************************************************)
(* Specification.                                                          *)
(***************************************************************************)
InitAny ==
    /\ now = 0
    /\ mappings \in MappingTables
    /\ endpointMode \in EndpointModes
    /\ lead = NoLead
    /\ jobs = [j \in JobIds |-> NoJob]
    /\ edge = NoEdge
    /\ retry = "idle"
    /\ forwardLogs = << >>
    /\ httpPosts = [s \in Senders |-> 0]
    /\ cbs = << >>
    /\ replayCache = {}
    /\ callbackLogs = << >>
    /\ commissions = << >>
    /\ fieldMappings = << >>
    /\ leadFields = [standard |-> EmptyObject, rawPayload |-> EmptyObject]
    /\ requestPayload = NoRequestPayload
    /\ hmacTrial = NoTrial

NextForward ==
    \/ TrackQueue
    \/ TrackEdge
    \/ \E j \in JobIds : pflLoad(j)
    \/ \E j \in JobIds : pflNoMapping(j)
    \/ \E j \in JobIds : pflPost(j)
    \/ \E j \in JobIds : pflLog(j)
    \/ \E j \in JobIds : pflUpdate(j)
    \/ \E j \in JobIds : pflCatchLog(j)
    \/ \E j \in JobIds : pflCatchUpdate(j)
    \/ edgeLoad
    \/ edgeNoMapping
    \/ edgePost
    \/ edgeLog
    \/ edgeUpdate
    \/ edgeCatchLog
    \/ edgeCatchUpdate
    \/ retryLeadUpdate
    \/ retryLeadEnqueue

NextCallback ==
    \/ cbReceive
    \/ \E c \in 1..Len(cbs) : cbFindLead(c)
    \/ \E c \in 1..Len(cbs) : checkReplayAttackExists(c)
    \/ \E c \in 1..Len(cbs) : checkReplayAttackSet(c)
    \/ \E c \in 1..Len(cbs) : cbLog(c)
    \/ \E c \in 1..Len(cbs) : cbUpdate(c)
    \/ \E c \in 1..Len(cbs) : cbFindCommission(c)
    \/ \E c \in 1..Len(cbs) : cbCreateCommission(c)
    \/ ClockTick

NextEdgeIntake ==
    \/ TrackEdge
    \/ edgeLoad
    \/ edgeNoMapping
    \/ edgePost
    \/ edgeLog
    \/ edgeUpdate
    \/ edgeCatchLog
    \/ edgeCatchUpdate

\* The forwarding pipeline alone, against every endpoint behaviour.
SpecForward == InitAny /\ [][NextForward]_vars

\* The callback handler, for a lead that tracking intake hands to the edge
\* function.
InitCallback ==
    /\ InitAny
    /\ endpointMode \in {"ok", "timeout"}
    /\ Len(mappings) <= 1 /\ MatchingMappings(mappings) = mappings

SpecCallback == InitCallback /\ [][NextEdgeIntake \/ NextCallback]_vars

\* The same, with the callbacks handled one after the other: a request
\* arrives only when every earlier one has been answered.
AllAnswered == \A c \in 1..Len(cbs) : cbs[c].pc = "done"

NextCallbackSerial ==
    \/ AllAnswered /\ cbReceive
    \/ \E c \in 1..Len(cbs) : cbFindLead(c)
    \/ \E c \in 1..Len(cbs) : checkReplayAttackExists(c)
    \/ \E c \in 1..Len(cbs) : checkReplayAttackSet(c)
    \/ \E c \in 1..Len(cbs) : cbLog(c)
    \/ \E c \in 1..Len(cbs) : cbUpdate(c)
    \/ \E c \in 1..Len(cbs) : cbFindCommission(c)
    \/ \E c \in 1..Len(cbs) : cbCreateCommission(c)
    \/ ClockTick

SpecCallbackSerial ==
    InitCallback /\ [][NextEdgeIntake \/ NextCallbackSerial]_vars

\* The request body alone, for every rule table and lead: built by the
\* forward job or by the edge function.
InitPayload ==
    /\ now = 0
    /\ mappings = << Mapping("A", "X", TRUE, "") >>
    /\ endpointMode = "ok"
    /\ lead = NewLead
    /\ jobs = [j \in JobIds |-> NoJob]
    /\ edge = NoEdge
    /\ retry = "idle"
    /\ forwardLogs = << >>
    /\ httpPosts = [s \in Senders |-> 0]
    /\ cbs = << >>
    /\ replayCache = {}
    /\ callbackLogs = << >>
    /\ commissions = << >>
    /\ fieldMappings \in FieldMappingTables
    /\ leadFields \in LeadFieldSets
    /\ requestPayload = NoRequestPayload
    /\ hmacTrial = NoTrial

NextPayload == pflBuildPayload \/ edgeBuildPayload

SpecPayload == InitPayload /\ [][NextPayload]_vars

\* Signing and verifying alone, at three times of the verifier's clock.
InitSign ==
    /\ now \in {0, Tick, 2 * Tick}
    /\ mappings = << >>
    /\ endpointMode = "ok"
    /\ lead = NoLead
    /\ jobs = [j \in JobIds |-> NoJob]
    /\ edge = NoEdge
    /\ retry = "idle"
    /\ forwardLogs = << >>
    /\ httpPosts = [s \in Senders |-> 0]
    /\ cbs = << >>
    /\ replayCache = {}
    /\ callbackLogs = << >>
    /\ commissions = << >>
    /\ fieldMappings = << >>
    /\ leadFields = [standard |-> EmptyObject, rawPayload |-> EmptyObject]
    /\ requestPayload = NoRequestPayload
    /\ hmacTrial = NoTrial

NextSign == hmacSign \/ hmacTransit \/ hmacVerify

SpecSign == InitSign /\ [][NextSign]_vars

\* Forwarding by the job or by the edge function, followed or overtaken by
\* callbacks; no operator retry.
JobStep ==
    \/ \E j \in JobIds : pflLoad(j)
    \/ \E j \in JobIds : pflNoMapping(j)
    \/ \E j \in JobIds : pflPost(j)
    \/ \E j \in JobIds : pflLog(j)
    \/ \E j \in JobIds : pflUpdate(j)
    \/ \E j \in JobIds : pflCatchLog(j)
    \/ \E j \in JobIds : pflCatchUpdate(j)

NextPipeline == TrackQueue \/ JobStep \/ NextEdgeIntake \/ NextCallback

SpecPipeline == InitCallback /\ [][NextPipeline]_vars

\* The forward job on a worker that may stop: the job layer redelivers the
\* job, and the worker, once up, keeps taking the steps of the job.
NextRedelivery ==
    \/ TrackQueue
    \/ JobStep
    \/ \E j \in JobIds : workerStop(j)

SpecRedelivery ==
    InitAny /\ [][NextRedelivery]_vars /\ WF_vars(JobStep)

\* The queue job, the operator's retry and unsigned callbacks handled one
\* after the other, the clock standing still.
cbReceiveUnsigned ==
    /\ AllAnswered
    /\ cbReceive
    /\ cbs'[Len(cbs')].timestamp = Null

NextRetry ==
    \/ TrackQueue
    \/ JobStep
    \/ retryLeadUpdate
    \/ retryLeadEnqueue
    \/ cbReceiveUnsigned
    \/ \E c \in 1..Len(cbs) : cbFindLead(c)
    \/ \E c \in 1..Len(cbs) : cbLog(c)
    \/ \E c \in 1..Len(cbs) : cbUpdate(c)
    \/ \E c \in 1..Len(cbs) : cbFindCommission(c)
    \/ \E c \in 1..Len(cbs) : cbCreateCommission(c)

SpecRetry == InitCallback /\ [][NextRetry]_vars

\* Tracking intake followed by forwarding, by the queue job or by the edge
\* function, on a worker and a runtime that keep taking the steps of what
\* they were handed; a lookup of the job may fail.
EdgeStep ==
    \/ edgeLoad
    \/ edgeNoMapping
    \/ edgePost
    \/ edgeLog
    \/ edgeUpdate
    \/ edgeCatchLog
    \/ edgeCatchUpdate

NextIntake ==
    \/ TrackQueue
    \/ TrackEdge
    \/ JobStep
    \/ EdgeStep
    \/ \E j \in JobIds : pflThrowsBeforePost(j)

SpecIntake ==
    InitAny /\ [][NextIntake]_vars /\ WF_vars(JobStep) /\ WF_vars(EdgeStep)

\* The whole pipeline.
Init == InitAny /\ endpointMode \in {"ok", "reject", "lateReject"}

Next == NextForward \/ NextCallback

Spec == Init /\ [][Next]_vars

(***************************************************************************)
(* Properties.                                                             *)
(***************************************************************************)
CommissionsOf(adv) ==
    {i \in 1..Len(commissions) :
        commissions[i].leadId = LeadId /\ commissions[i].advertiserId = adv}

LeadCommissions ==
    {i \in 1..Len(commissions) : commissions[i].leadId = LeadId}

SameReplayKey(c1, c2) ==
    ReplayKey(cbs[c1].timestamp, cbs[c1].signature)
        = ReplayKey(cbs[c2].timestamp, cbs[c2].signature)

\* checkReplayAttack has returned false to callback c.
PassedReplayCheck(c) ==
    /\ cbs[c].replayAt # Null
    /\ cbs[c].pc \notin {"replayExists", "replaySet"}
    /\ cbs[c].response # "REPLAY_ATTACK"

\* The request of callback c was signed by the advertiser, with its secret.
SignedByAdvertiser(c) ==
    /\ cbs[c].timestamp # Null
    /\ cbs[c].signature =
         SignatureHeader(hmacAlgo,
             createHmacSignature("s1", cbs[c].timestamp, cbs[c].payload))

RowsBy(s) ==
    {i \in 1..Len(forwardLogs) : forwardLogs[i].by = s}

NoEnabledMatch ==
    \A i \in 1..Len(mappings) :
        ~(mappings[i].affiliateId = AffiliateId
          /\ mappings[i].offerId = OfferId /\ mappings[i].enabled)

Transient(row) == row.statusCode = Null \/ row.statusCode >= 500

\* One forwarder only has worked on the lead: the edge function or one job,
\* and the operator has not retried.
SingleForwarder ==
    /\ retry = "idle"
    /\ Cardinality(AddedJobs) + (IF edge.pc = "idle" THEN 0 ELSE 1) <= 1

AtRest(s) ==
    IF s = EdgeId THEN edge.pc \in {"idle", "lost", "done"}
    ELSE jobs[s].state # "active"

\* C1: whatever the interleaving of the callbacks handled for the lead of
\* advertiser X, all of them signed with its secret and no two with the
\* same timestamp, the Commission table never holds more than one
\* commission of the lead for one advertiser.  (The handler's findFirst and create are two steps: two
\* callbacks both find nothing and both insert.)
C1_AtMostOneCommission ==
    ( /\ lead.advertiserId = "X"
      /\ \A c \in 1..Len(cbs) : SignedByAdvertiser(c)
      /\ \A c1, c2 \in 1..Len(cbs) :
            c1 # c2 => cbs[c1].timestamp # cbs[c2].timestamp )
    => \A adv \in Advertisers : Cardinality(CommissionsOf(adv)) <= 1

\* C2: two callbacks handled one after the other with the same approved
\* payload and the same positive payout, one of them at least accepted,
\* leave exactly one Commission row for the lead.
C2_TwiceOneCommission ==
    \A c1, c2 \in 1..Len(cbs) :
        ( /\ c1 < c2
          /\ cbs[c1].pc = "done" /\ cbs[c2].pc = "done"
          /\ cbs[c1].payload = cbs[c2].payload
          /\ CommissionDue(cbs[c1].payload)
          /\ (cbs[c1].response = "ok" \/ cbs[c2].response = "ok") )
        => Cardinality(LeadCommissions) = 1

C2_Witness ==
    /\ Len(cbs) >= 2
    /\ cbs[1].response = "ok" /\ cbs[2].response = "ok"
    /\ cbs[1].payload = cbs[2].payload
    /\ CommissionDue(cbs[1].payload)
    /\ Cardinality(LeadCommissions) = 1

\* C3: when every delivery attempt for the lead fails transiently, the
\* attempts are numbered 1, 2, ... in the order made, the lead is pending
\* as long as fewer than 6 have been logged, and forward_failed is reached
\* only with the 6th.  (The edge function, which tracking intake calls,
\* makes one attempt and writes forward_failed after it.)
C3_TransientRetries ==
    ( /\ SingleForwarder
      /\ forwardLogs # << >>
      /\ \A i \in 1..Len(forwardLogs) : Transient(forwardLogs[i]) )
    => /\ \A i \in 1..Len(forwardLogs) : forwardLogs[i].attemptNo = i
       /\ Len(forwardLogs) <= ATTEMPTS
       /\ Len(forwardLogs) < ATTEMPTS => lead.status = "pending"
       /\ lead.status = "forward_failed" => Len(forwardLogs) = ATTEMPTS

\* C4: a job whose POST was answered with a status that is not 2xx (and is
\* below 500) is not scheduled for another execution.  (The processor
\* throws after writing forward_failed, and the job layer delays the job
\* for a retry.)
C4_ClientErrorStops ==
    \A j \in JobIds :
        (jobs[j].response # Null
         /\ ~(jobs[j].response >= 200 /\ jobs[j].response < 300))
        => jobs[j].state # "delayed"

\* C5: when no enabled mapping matches the lead, no POST is sent, no
\* ForwardAttempt row is written, no job counts a failed attempt or is
\* delayed or failed, and every execution that found the lead pending ends
\* by returning with the status set to no_mapping.
C5_NoMappingState ==
    NoEnabledMatch
    => /\ TotalPosts = 0
       /\ forwardLogs = << >>
       /\ lead.status \in {"none", "pending", "no_mapping"}
       /\ \A j \in JobIds :
            jobs[j].attemptsMade = 0 /\ jobs[j].state \notin {"delayed", "failed"}

C5_NoMappingStep ==
    NoEnabledMatch
    => /\ \A j \in JobIds :
            (jobs[j].state = "active" /\ jobs'[j].state # "active")
            => jobs'[j].state = "completed" /\ lead'.status = "no_mapping"
       /\ (edge.pc \in {"nomapping", "post"} /\ edge'.pc = "done")
            => lead'.status = "no_mapping"

C6_Forwarded(by, attemptNo, response) ==
    /\ lead'.status = "forwarded"
    /\ \E i \in 1..Len(mappings) :
          /\ mappings[i].affiliateId = AffiliateId
          /\ mappings[i].offerId = OfferId /\ mappings[i].enabled
          /\ mappings[i].advertiserId = lead'.advertiserId
    /\ lead'.advertiserResponse = response
    /\ \E i \in 1..Len(forwardLogs') :
          /\ forwardLogs'[i].by = by /\ forwardLogs'[i].attemptNo = attemptNo
          /\ forwardLogs'[i].statusCode = response
          /\ \A k \in 1..Len(forwardLogs') :
                (forwardLogs'[k].by = by /\ forwardLogs'[k].attemptNo = attemptNo)
                => k = i

C6_SuccessStep ==
    /\ \A j \in JobIds :
          ( /\ jobs[j].state = "active" /\ jobs'[j].state # "active"
            /\ jobs[j].response >= 200 /\ jobs[j].response < 300 )
          => /\ jobs'[j].state = "completed"
             /\ C6_Forwarded(j, jobs[j].attemptsMade + 1, jobs[j].response)
    /\ ( /\ edge.pc # "done" /\ edge'.pc = "done"
         /\ edge.response >= 200 /\ edge.response < 300 )
       => C6_Forwarded(EdgeId, 1, edge.response)

C6_Success == [][C6_SuccessStep]_vars

C6_Witness ==
    /\ lead.status = "forwarded" /\ lead.advertiserId = "X"
    /\ lead.advertiserResponse = 201
    /\ \E j \in JobIds : jobs[j].state = "completed" /\ jobs[j].response = 201

\* C7: every POST produces exactly one ForwardAttempt row: a sender never
\* has more rows than POSTs, and as many once its attempt is over.  (A
\* response that is not 2xx and below 500 is logged in the try block and
\* again in the catch block.)
C7_OneRowPerAttempt ==
    \A s \in Senders :
        /\ Cardinality(RowsBy(s)) <= httpPosts[s]
        /\ AtRest(s) => Cardinality(RowsBy(s)) = httpPosts[s]

\* C8: a callback signed by the advertiser, not a replay, with status
\* approved and payout p > 0, for a lead it loaded as forwarded and without
\* conversion timestamp, is accepted and leaves the lead approved, with
\* advertiserStatus approved, payout p and the conversion timestamp set,
\* and exactly one Commission of the lead: amount p, the lead's advertiser
\* and affiliate.
C8_Pre(c) ==
    /\ cbs[c].status = "forwarded"
    /\ cbs[c].ftdAt = Null
    /\ Advertiser(cbs[c].advertiserId).endpointSecret # ""
    /\ SignedByAdvertiser(c)
    /\ cbs[c].replayAt # Null
    /\ CommissionDue(cbs[c].payload)

C8_ApprovedStep ==
    \A c \in 1..Len(cbs) :
        ( /\ cbs[c].pc # "done" /\ cbs'[c].pc = "done"
          /\ cbs'[c].response # "REPLAY_ATTACK"
          /\ C8_Pre(c) )
        => /\ cbs'[c].response = "ok"
           /\ lead'.status = "approved"
           /\ lead'.advertiserStatus = "approved"
           /\ lead'.payout = cbs[c].payload.payout
           /\ lead'.ftdAt # Null
           /\ Len(commissions') = 1
           /\ commissions'[1] =
                [leadId |-> LeadId, advertiserId |-> lead'.advertiserId,
                 affiliateId |-> AffiliateId,
                 amount |-> cbs[c].payload.payout]

C8_Approved == [][C8_ApprovedStep]_vars

C8_Witness ==
    \E c \in 1..Len(cbs) :
        /\ cbs[c].pc = "done" /\ cbs[c].response = "ok" /\ C8_Pre(c)
        /\ lead.status = "approved" /\ lead.payout = 25
        /\ lead.ftdAt # Null
        /\ Len(commissions) = 1 /\ commissions[1].amount = 25

\* C9: of the callbacks handled one after the other, the first to present
\* a (timestamp, signature) pair to the replay check is not reported a
\* replay, and one that presents a pair less than 300 seconds after a
\* callback that passed the check with the same pair is rejected as a
\* replay.
C9_ReplayTwice ==
    \A c2 \in 1..Len(cbs) :
        (cbs[c2].replayAt # Null /\ cbs[c2].pc = "done")
        => /\ (\A c1 \in 1..(c2 - 1) : ~SameReplayKey(c1, c2))
                => cbs[c2].response # "REPLAY_ATTACK"
           /\ (\E c1 \in 1..(c2 - 1) :
                  /\ SameReplayKey(c1, c2)
                  /\ PassedReplayCheck(c1)
                  /\ cbs[c2].replayAt - cbs[c1].replayAt < REPLAY_TTL)
                => cbs[c2].response = "REPLAY_ATTACK"

C9_Witness ==
    \E c1, c2 \in 1..Len(cbs) :
        /\ c1 < c2 /\ SameReplayKey(c1, c2)
        /\ cbs[c1].response = "ok"
        /\ cbs[c2].response = "REPLAY_ATTACK"

\* C10: of two callbacks that carry the same (timestamp, signature) pair
\* and whose replay checks are made less than 300 seconds apart, at most
\* one passes the check, whatever the interleaving.  (exists and set are
\* two round trips: both callbacks see no key, both store it, both pass.)
C10_AtMostOnePasses ==
    \A c1, c2 \in 1..Len(cbs) :
        ( /\ c1 < c2 /\ SameReplayKey(c1, c2)
          /\ PassedReplayCheck(c1) /\ PassedReplayCheck(c2) )
        => Abs(cbs[c2].replayAt - cbs[c1].replayAt) >= REPLAY_TTL

\* C11: a signature made with a secret, a timestamp and a body verifies
\* with the same three when the timestamp is within 300 seconds of the
\* verifier's clock, and verification fails once the body, the timestamp or
\* the signature header has been replaced by any different value.  (The
\* header is split at "=" and its digits decoded from hex: a header with
\* capital digits, or with "=..." appended, is a different value and
\* verifies.)
C11_RoundTrip ==
    hmacTrial.pc = "verified"
    => /\ ( hmacTrial.changed = "none"
            /\ Abs(now - hmacTrial.timestamp) <= WINDOW )
          => hmacTrial.result
       /\ hmacTrial.changed # "none" => ~hmacTrial.result

\* C12: when the advertiser has at least one field rule, whatever its
\* inclusion flag, every key of the body is az_tx_id or the target of one of
\* its rules with inclusion enabled.  (Only the enabled rules are fetched:
\* with none enabled the default mapping sends every standard field.)
C12_AllowListOnly ==
    ( /\ requestPayload.by # "none"
      /\ \E i \in 1..Len(fieldMappings) : fieldMappings[i].advertiserId = "X" )
    => Keys(requestPayload.body) \subseteq
         ( {"az_tx_id"}
           \cup { fieldMappings[i].targetField :
                    i \in { n \in 1..Len(fieldMappings) :
                              /\ fieldMappings[n].advertiserId = "X"
                              /\ fieldMappings[n].allowlist } } )

\* C13: the body sent always has the key az_tx_id, holding the lead's own
\* transaction id, whatever the field rules.  (The built payload is spread
\* after az_tx_id: a rule whose target is az_tx_id replaces it.)
C13_TxIdKept ==
    requestPayload.by # "none"
    => requestPayload.body["az_tx_id"] = AzTxId

\* The callbacks that got as far as the signature step: the body was
\* complete, the lead was found and it had an advertiser.
ReachedSignatureStep(c) ==
    /\ cbs[c].pc = "done"
    /\ cbs[c].response \notin {"MISSING_AZ_TX_ID", "MISSING_STATUS",
                               "LEAD_NOT_FOUND", "NO_ADVERTISER"}

CallbackLogsBy(c) == {i \in 1..Len(callbackLogs) : callbackLogs[i].by = c}

\* C14: a callback that reached the signature step has, once answered,
\* exactly one CallbackLog row, accepted or rejected alike.  (The handler
\* throws on an invalid signature and on a replay before it writes the
\* row.)
C14_AlwaysLogged ==
    \A c \in 1..Len(cbs) :
        ReachedSignatureStep(c) => Cardinality(CallbackLogsBy(c)) = 1

\* The handler of callback c has updated the lead.
UpdatedLead(c) ==
    \/ cbs[c].pc \in {"findCommission", "createCommission"}
    \/ cbs[c].response = "ok"

\* C15: for a lead whose advertiser has a secret, a callback that updated
\* the lead had its signature verified as valid.  (Verification is also
\* skipped when the signature or the timestamp header is absent.)
C15_SecretMeansVerified ==
    \A c \in 1..Len(cbs) :
        ( /\ UpdatedLead(c)
          /\ Advertiser(cbs[c].advertiserId).endpointSecret # "" )
        => cbs[c].replayAt # Null

\* C16: a lead's status, once approved or rejected, is changed by no step
\* other than retryLead's update, which makes it pending.  (A later callback
\* with status rejected makes an approved lead rejected, and one with status
\* approved makes a rejected lead approved.)
C16_StableStep ==
    ( lead.status \in {"approved", "rejected"} /\ lead'.status # lead.status )
    => /\ retry = "idle" /\ retry' = "enqueue"
       /\ lead'.status = "pending"

C16_Stable == [][C16_StableStep]_vars

\* The jobs whose processor is between the mapping lookup and its end: a
\* delivery attempt in execution.
Delivering == {j \in JobIds : jobs[j].state = "active"
                              /\ jobs[j].pc # "nomapping"}

\* C17: at no time are two delivery attempts for the lead in execution.
\* (retryLead adds a job whatever the state of the earlier one, and jobs
\* carry no id or key of the lead: the worker runs both.)
C17_SingleFlight == Cardinality(Delivering) <= 1

\* C19: a callback creates a Commission only if it carried status approved
\* with a payout above zero and its own update made the lead approved.
\* (The handler looks at the payload alone: an approved callback for a lead
\* that already has a conversion timestamp writes no status, and still
\* creates the commission.)
C19_CommissionStep ==
    \A c \in 1..Len(cbs) :
        ( cbs[c].pc = "createCommission" /\ cbs'[c].pc = "done" )
        => /\ CommissionDue(cbs[c].payload)
           /\ cbs[c].ftdAt = Null
           /\ lead.status = "approved"

C19_CommissionOnlyOnApproval == [][C19_CommissionStep]_vars

\* C18: a forward attempt writes the status forwarded or forward_failed
\* only once the ForwardAttempt row of that attempt is in the table, and a
\* callback updates the lead only once its CallbackLog row is in the table.
C18_JobLogged(j) ==
    ( /\ jobs[j].state = "active" /\ jobs'[j] # jobs[j]
      /\ lead'.status \in {"forwarded", "forward_failed"} /\ lead' # lead )
    => \E i \in 1..Len(forwardLogs) :
          /\ forwardLogs[i].by = j
          /\ forwardLogs[i].attemptNo = jobs[j].attemptsMade + 1

C18_EdgeLogged ==
    ( /\ edge' # edge
      /\ lead'.status \in {"forwarded", "forward_failed"} /\ lead' # lead )
    => \E i \in 1..Len(forwardLogs) :
          forwardLogs[i].by = EdgeId /\ forwardLogs[i].attemptNo = 1

C18_CallbackLogged(c) ==
    ( cbs[c].pc = "update" /\ cbs'[c].pc # "update" )
    => CallbackLogsBy(c) # {}

C18_LoggedFirstStep ==
    /\ \A j \in JobIds : C18_JobLogged(j)
    /\ C18_EdgeLogged
    /\ \A c \in 1..Len(cbs) : C18_CallbackLogged(c)

C18_LoggedFirst == [][C18_LoggedFirstStep]_vars

C18_Witness ==
    /\ \E j \in JobIds :
          /\ jobs[j].state = "failed" /\ jobs[j].attemptsMade = ATTEMPTS
          /\ Cardinality(RowsBy(j)) = ATTEMPTS
    /\ lead.status = "forward_failed"
    /\ \E c \in 1..Len(cbs) :
          cbs[c].response = "ok" /\ CallbackLogsBy(c) # {}

\* The processor of job j has written no status yet in this execution.
StatusUnwritten(j) ==
    \/ jobs[j].pc \in {"nomapping", "post", "log", "update"}
    \/ jobs[j].pc \in {"catchLog", "catchUpdate"} /\ jobs[j].response = Null

\* Job j was redelivered after a stop and waits for the worker, the lead
\* still pending.
Redelivered(j) ==
    /\ jobs[j].state = "waiting" /\ jobs[j].stalled > 0
    /\ lead.status = "pending"

\* C20: when the worker stops before the processor has written the lead's
\* status, the lead is still pending; the redelivered job passes the pending
\* guard, and the lead ends forwarded, no_mapping or forward_failed.
C20_StopStep ==
    \A j \in JobIds :
        ( /\ jobs[j].state = "active" /\ jobs'[j].stalled > jobs[j].stalled
          /\ StatusUnwritten(j) )
        => lead'.status = "pending"

C20_RedeliverStep ==
    \A j \in JobIds :
        ( Redelivered(j) /\ jobs'[j] # jobs[j] )
        => jobs'[j].state = "active"

C20_Recoverable ==
    /\ [][C20_StopStep /\ C20_RedeliverStep]_vars
    /\ \A j \in JobIds :
          Redelivered(j)
          ~> (lead.status \in {"forwarded", "no_mapping", "forward_failed"})

C20_Witness ==
    \E j \in JobIds :
        /\ endpointMode = "ok"
        /\ jobs[j].stalled > 0 /\ jobs[j].state = "completed"
        /\ httpPosts[j] = 2
        /\ lead.status = "forwarded"

\* C22: an execution that loads the lead with a status other than pending
\* does nothing: no POST, no ForwardAttempt row, the lead as it was, and the
\* execution ends by returning (the job completed without a counted attempt,
\* the edge function done).
C22_NoOpStep ==
    /\ \A j \in JobIds :
          ( /\ jobs[j].state \in {"waiting", "delayed"} /\ jobs'[j] # jobs[j]
            /\ lead.status # "pending" )
          => /\ jobs'[j].state = "completed"
             /\ jobs'[j].attemptsMade = jobs[j].attemptsMade
             /\ lead' = lead
             /\ forwardLogs' = forwardLogs
             /\ httpPosts' = httpPosts
    /\ ( edge.pc = "load" /\ edge' # edge /\ lead.status # "pending" )
       => /\ edge'.pc = "done"
          /\ lead' = lead
          /\ forwardLogs' = forwardLogs
          /\ httpPosts' = httpPosts

C22_NoOp == [][C22_NoOpStep]_vars

C22_Witness ==
    \E j \in JobIds :
        /\ jobs[j].state = "completed" /\ jobs[j].attemptsMade = 0
        /\ jobs[j].mapping = NoMapping
        /\ httpPosts[j] = 0 /\ RowsBy(j) = {}
        /\ lead.status = "forwarded"

\* C24: when several enabled mappings match the lead, every forward attempt
\* resolves to the same one of them and the lead never ends in no_mapping.
\* (The edge function's maybeSingle() answers several rows with an error,
\* which the handler treats as no mapping.)
C24_AmbiguityResolved ==
    Len(MatchingMappings(mappings)) >= 2
    => lead.status # "no_mapping"

\* C25: the attempt numbers of the lead's ForwardAttempt rows, in the order
\* written, start at 1 and are strictly increasing.  (A response that is not
\* 2xx and below 500 is logged twice with the same number; a job added by
\* retryLead counts from 1 again; the edge function always writes 1.)
C25_AttemptsIncrease ==
    /\ forwardLogs # << >> => forwardLogs[1].attemptNo = 1
    /\ \A i, k \in 1..Len(forwardLogs) :
          i < k => forwardLogs[i].attemptNo < forwardLogs[k].attemptNo

\* The codes of the rejections made after the lead lookup.
RejectionCodes ==
    {"LEAD_NOT_FOUND", "NO_ADVERTISER", "INVALID_SIGNATURE", "REPLAY_ATTACK"}

\* Callback c has made no write yet: it has just arrived, or is at the lead
\* lookup and signature gate, or at the first round trip of the replay check.
BeforeWrites(c) == c > Len(cbs) \/ cbs[c].pc \in {"find", "replayExists"}

\* C23: a callback whose handling ends before its first write (unknown
\* lead, lead without advertiser, invalid signature, replay, or a body
\* without az_tx_id or status) has left the lead and the Commission table as
\* they were at every step, and is answered with the error envelope and the
\* status of the rejection (404 unknown lead, 401 invalid signature, 400
\* otherwise), never {ok: true}; handling that ends later ends in {ok: true}.
C23_RejectedStep ==
    \A c \in 1..Len(cbs') :
        /\ ( BeforeWrites(c) /\ (c > Len(cbs) \/ cbs'[c] # cbs[c]) )
           => lead' = lead /\ commissions' = commissions
        /\ ( BeforeWrites(c) /\ cbs'[c].pc = "done" )
           => /\ cbs'[c].response # "ok"
              /\ HttpResponse(cbs'[c]).envelope = "error"
              /\ HttpResponse(cbs'[c]).code = cbs'[c].response
              /\ HttpResponse(cbs'[c]).status =
                    ( CASE cbs'[c].response = "LEAD_NOT_FOUND" -> 404
                        [] cbs'[c].response = "INVALID_SIGNATURE" -> 401
                        [] OTHER -> 400 )
              /\ c <= Len(cbs) => cbs'[c].response \in RejectionCodes
        /\ ( /\ ~BeforeWrites(c)
             /\ cbs[c].pc # "done" /\ cbs'[c].pc = "done" )
           => /\ cbs'[c].response = "ok"
              /\ HttpResponse(cbs'[c]).envelope = "ok"

C23_RejectedUnchanged == [][C23_RejectedStep]_vars

C23_Witness ==
    \E c1, c2 \in 1..Len(cbs) :
        /\ cbs[c1].response = "ok"
        /\ cbs[c2].pc = "done" /\ cbs[c2].response = "REPLAY_ATTACK"
        /\ lead.status = "approved" /\ lead.ftdAt # Null
        /\ Len(commissions) = 1

\* C26: a callback whose status is neither approved nor rejected writes that
\* status to advertiserStatus and the payout when it carries one, leaves the
\* canonical status and the conversion timestamp as they were, and no step
\* of it changes the Commission table.
C26_InterimStep ==
    \A c \in 1..Len(cbs) :
        cbs[c].payload.status \notin {"approved", "rejected"}
        => /\ cbs'[c] # cbs[c] => commissions' = commissions
           /\ ( cbs[c].pc = "update" /\ cbs'[c].pc # "update" )
              => /\ lead'.advertiserStatus = cbs[c].payload.status
                 /\ lead'.payout = IF cbs[c].payload.payout # Null
                                   THEN cbs[c].payload.payout ELSE lead.payout
                 /\ lead'.status = lead.status
                 /\ lead'.ftdAt = lead.ftdAt
                 /\ lead'.advertiserId = lead.advertiserId
                 /\ cbs'[c].pc = "done" /\ cbs'[c].response = "ok"

C26_InterimStatus == [][C26_InterimStep]_vars

C26_Witness ==
    \E c \in 1..Len(cbs) :
        /\ cbs[c].payload.status = "pending" /\ cbs[c].payload.payout = 25
        /\ cbs[c].pc = "done" /\ cbs[c].response = "ok"
        /\ lead.advertiserStatus = "pending" /\ lead.payout = 25
        /\ lead.status = "forwarded" /\ lead.ftdAt = Null
        /\ commissions = << >>

\* C27: of the callbacks that carry one (timestamp, signature) pair, at most
\* one ever passes the replay check.  (The key expires 300 seconds after
\* the first use; a timestamp 300 seconds ahead of the clock is then still
\* inside the window, and the same request passes again.)  Counted are
\* the callbacks whose timestamp is inside the window when they reach the
\* replay check.
C27_AcceptedOnce ==
    \A c1, c2 \in 1..Len(cbs) :
        ( /\ c1 < c2 /\ SameReplayKey(c1, c2)
          /\ PassedReplayCheck(c1)
          /\ cbs[c2].replayAt # Null
          /\ Abs(cbs[c2].replayAt - cbs[c2].timestamp) <= WINDOW )
        => ~PassedReplayCheck(c2)

\* C21: retryLead's update makes the lead pending and adds nothing to the
\* queue; its enqueue adds exactly one job, waiting, with no attempt made
\* (its first ForwardAttempt row is numbered 1), and changes no other job and
\* not the lead; and no step other than retryLead's update and tracking
\* intake makes a lead pending.
C21_RetryStep ==
    /\ ( lead'.status = "pending" /\ lead.status # "pending" )
       => \/ lead.status = "none"
          \/ retry = "idle" /\ retry' = "enqueue"
    /\ ( retry = "idle" /\ retry' = "enqueue" )
       => /\ lead' = [lead EXCEPT !.status = "pending"]
          /\ jobs' = jobs
    /\ ( retry = "enqueue" /\ retry' = "idle" )
       => /\ lead' = lead
          /\ \E j \in JobIds :
                /\ jobs[j].state = "none"
                /\ jobs'[j].state = "waiting" /\ jobs'[j].attemptsMade = 0
                /\ \A k \in JobIds \ {j} : jobs'[k] = jobs[k]
    /\ \A j \in JobIds :
          ( Len(forwardLogs') > Len(forwardLogs)
            /\ forwardLogs'[Len(forwardLogs')].by = j
            /\ RowsBy(j) = {} )
          => forwardLogs'[Len(forwardLogs')].attemptNo = 1

C21_RetryOnly == [][C21_RetryStep]_vars

C21_Witness ==
    /\ jobs[1].state = "failed" /\ jobs[1].attemptsMade = ATTEMPTS
    /\ jobs[2].state = "delayed" /\ jobs[2].attemptsMade = 1
    /\ \E i \in RowsBy(2) : forwardLogs[i].attemptNo = 1
    /\ lead.status = "pending"
    /\ \E c \in 1..Len(cbs) : cbs[c].response = "ok"

\* C28: a step of a forward job execution never changes a status approved or
\* rejected.  (The processor reads the status once, at the pending guard,
\* and writes forwarded or forward_failed whatever the status is by then.)
C28_JobKeepsStep ==
    \A j \in JobIds :
        ( /\ jobs[j].state = "active" /\ jobs'[j] # jobs[j]
          /\ lead.status \in {"approved", "rejected"} )
        => lead'.status = lead.status

C28_JobKeepsCallbackStatus == [][C28_JobKeepsStep]_vars

\* C29: the lead update of a callback with status approved leaves the lead
\* approved, with its conversion timestamp set.  (The handler writes status
\* and timestamp only when the lead it loaded had no conversion timestamp.)
C29_ApprovedStep ==
    \A c \in 1..Len(cbs) :
        ( /\ cbs[c].pc = "update" /\ cbs'[c].pc # "update"
          /\ cbs[c].payload.status = "approved" )
        => lead'.status = "approved" /\ lead'.ftdAt # Null

C29_ApprovedAfterAccept == [][C29_ApprovedStep]_vars

\* The job layer has stopped executing job j: it completed, or its attempts
\* are used up.
JobFinished(j) == jobs[j].state \in {"completed", "failed"}

C30_FinishedNotPending ==
    \A j \in JobIds :
        JobFinished(j)
        => lead.status \in {"forwarded", "no_mapping", "forward_failed",
                            "approved", "rejected"}

C30_LeavesPending == (lead.status = "pending") ~> (lead.status # "pending")

\* C30: once the forward job of a lead has completed or used up its
\* attempts, the lead is not pending; and every lead created by tracking
\* intake eventually leaves pending.  (An exception before the HTTP call is
\* thrown again by the outer catch without a write to the lead; and the edge
\* function is triggered by a request nobody waits for or repeats.)
C30_NoLeadLeftPending == []C30_FinishedNotPending /\ C30_LeavesPending

====
